---- MODULE Spec2Model ----
(***************************************************************************)
(* The ImageFocusPoint component (src/unnamed/part_000) as a state machine. *)
(*                                                                         *)
(* State: the component's React state (x, y, canMove), its props           *)
(* (initialFocusPoint, allowImageClick), the container's bounding          *)
(* rectangle, the listeners the component has registered on `document`,    *)
(* and the calls of onChange made by the last handler.                     *)
(*                                                                         *)
(* One action is one DOM event (or one render of the parent) together with *)
(* everything React does in response: the handler, the batched state       *)
(* updates, the render, and the effect on initialFocusPoint.               *)
(*                                                                         *)
(* Pointer coordinates and rectangle edges are integers; percentages are   *)
(* JavaScript numbers, modelled as exact fractions plus NaN and the two    *)
(* infinities.                                                             *)
(***************************************************************************)
EXTENDS Integers, Sequences, FiniteSets, TLC

VARIABLES
    x, y,               \* useState: the displayed position, in percent
    canMove,            \* useState: TRUE while Dragging
    initialFocusPoint,  \* prop focusPoint (NoFocusPoint when not supplied)
    allowImageClick,    \* prop
    callerAdopts,       \* the caller answers onChange(p) by supplying p as focusPoint
    rect,               \* containerRef.current.getBoundingClientRect()
    mounted,            \* the component is mounted (containerRef.current is set)
    renderId,           \* the committed render; each render creates new closures
    listeners,          \* event type -> renders whose handleMouseUp is registered on document
    gesture,            \* history: the last event that started or ended a drag
    clickFollows,       \* history: the element the click of the gesture is dispatched to
                        \* next, when the last event released a press on the indicator:
                        \* "indicator", "container" (the release was elsewhere), or "none"
    ev,                 \* history: the last event
    emitted             \* history: the onChange calls made by the last event, in order

vars == <<x, y, canMove, initialFocusPoint, allowImageClick, callerAdopts, rect,
          mounted, renderId, listeners, gesture, clickFollows, ev, emitted>>

----------------------------------------------------------------------------
(* Bounds *)

\* clientX and clientY range over -1..MaxCoord
MaxCoord == 2
\* at most this many handleMouseUp closures are registered at once
MaxListeners == 2
\* the mapper alone is checked for rectangle sizes 1..MaxSize
MaxSize == 5

DEFAULT_PERCENTAGE == 50

----------------------------------------------------------------------------
(* JavaScript numbers: n/d in lowest terms with d > 0; d = 0 for +-Infinity *)

Abs(i) == IF i < 0 THEN -i ELSE i

RECURSIVE Gcd(_, _)
Gcd(a, b) == IF b = 0 THEN a ELSE Gcd(b, a % b)

Fin(n, d) == LET g == Gcd(Abs(n), d) IN [k |-> "fin", n |-> n \div g, d |-> d \div g]
Num(i) == Fin(i, 1)
NaN == [k |-> "nan", n |-> 0, d |-> 1]
PosInf == [k |-> "inf", n |-> 1, d |-> 0]
NegInf == [k |-> "inf", n |-> -1, d |-> 0]

\* a < b, for numbers other than NaN
Less(a, b) == a.n * b.d < b.n * a.d

\* p / q for integers p and q, q >= 0
JsDiv(p, q) ==
    IF q = 0
    THEN IF p = 0 THEN NaN ELSE IF p > 0 THEN PosInf ELSE NegInf
    ELSE Fin(p, q)

MathMax(a, b) == IF a.k = "nan" \/ b.k = "nan" THEN NaN ELSE IF Less(a, b) THEN b ELSE a
MathMin(a, b) == IF a.k = "nan" \/ b.k = "nan" THEN NaN ELSE IF Less(b, a) THEN b ELSE a

----------------------------------------------------------------------------
(* Coordinate mapper *)

\* mutant: the quotient is returned unclamped
calculatePercentageNoClamp(value, max) == JsDiv(value * 100, max)

calculatePercentage(value, max) ==
    MathMin(MathMax(JsDiv(value * 100, max), Num(0)), Num(100))

----------------------------------------------------------------------------
(* Inputs *)

Coords == (0 - 1)..MaxCoord

\* pointer positions <<clientX, clientY>>: the diagonal and two points off it
Pointers == {<<c, c>> : c \in Coords} \cup {<<0 - 1, MaxCoord>>, <<1, 0>>}

NoFocusPoint == [none |-> TRUE]
FocusPoint(px, py) == [x |-> px, y |-> py]

\* values the caller supplies of its own accord; the second is out of range
ExtPoints == {FocusPoint(Num(30), Num(40)), FocusPoint(Num(120), Num(0 - 10))}

Rect(l, t, w, h) == [left |-> l, top |-> t, width |-> w, height |-> h]
\* the last has no width, as a container has before it is laid out
Rects == {Rect(0, 0, 2, 2), Rect(1, 1, 1, 1), Rect(0, 1, 0, 2)}

EventTypes == {"mouseup", "mouseleave"}
NoListeners == [t \in EventTypes |-> {}]

Event(type, cx, cy, key) == [type |-> type, cx |-> cx, cy |-> cy, key |-> key]

----------------------------------------------------------------------------
(* Handlers: each returns the state updates it batches, the onChange calls *)
(* it makes and the listeners on document when it returns.                 *)

Batch(bx, by, bCanMove, calls, ls) ==
    [x |-> bx, y |-> by, canMove |-> bCanMove, emitted |-> calls, listeners |-> ls]

NoUpdate == Batch(x, y, canMove, <<>>, listeners)

\* mutant: moves are handled whether or not canMove is set
handleMouseMoveAlways(cx, cy) ==
    LET newX == calculatePercentage(cx - rect.left, rect.width)
        newY == calculatePercentage(cy - rect.top, rect.height)
    IN  Batch(newX, newY, canMove, <<FocusPoint(newX, newY)>>, listeners)

\* mutant: moves are handled only while a release listener is registered
handleMouseMovePressOnly(cx, cy) ==
    IF ~canMove \/ ~mounted \/ listeners["mouseup"] = {}
    THEN NoUpdate
    ELSE LET newX == calculatePercentage(cx - rect.left, rect.width)
             newY == calculatePercentage(cy - rect.top, rect.height)
         IN  Batch(newX, newY, canMove, <<FocusPoint(newX, newY)>>, listeners)

\* mutant: a handled move reports the new position but stores only its x
handleMouseMoveForgetsY(cx, cy) ==
    IF ~canMove \/ ~mounted
    THEN NoUpdate
    ELSE LET newX == calculatePercentage(cx - rect.left, rect.width)
             newY == calculatePercentage(cy - rect.top, rect.height)
         IN  Batch(newX, y, canMove, <<FocusPoint(newX, newY)>>, listeners)

handleMouseMove(cx, cy) ==
    IF ~canMove \/ ~mounted
    THEN NoUpdate
    ELSE LET xPixels == cx - rect.left
             yPixels == cy - rect.top
             newX == calculatePercentage(xPixels, rect.width)
             newY == calculatePercentage(yPixels, rect.height)
         IN  Batch(newX, newY, canMove, <<FocusPoint(newX, newY)>>, listeners)

\* mutant: allowImageClick is not consulted
handleContainerClickIgnoresFlag(target, cx, cy) ==
    IF canMove \/ target = "BUTTON"
    THEN NoUpdate
    ELSE LET newX == calculatePercentage(cx - rect.left, rect.width)
             newY == calculatePercentage(cy - rect.top, rect.height)
         IN  Batch(newX, newY, canMove, <<FocusPoint(newX, newY)>>, listeners)

\* mutant: the position is set but onChange is not called
handleContainerClickSilent(target, cx, cy) ==
    IF ~allowImageClick \/ canMove \/ target = "BUTTON"
    THEN NoUpdate
    ELSE LET newX == calculatePercentage(cx - rect.left, rect.width)
             newY == calculatePercentage(cy - rect.top, rect.height)
         IN  Batch(newX, newY, canMove, <<>>, listeners)

\* mutant: canMove is not consulted
handleContainerClickWhileDragging(target, cx, cy) ==
    IF ~allowImageClick \/ target = "BUTTON" \/ ~mounted
    THEN NoUpdate
    ELSE LET newX == calculatePercentage(cx - rect.left, rect.width)
             newY == calculatePercentage(cy - rect.top, rect.height)
         IN  Batch(newX, newY, canMove, <<FocusPoint(newX, newY)>>, listeners)

\* mutant: onChange is called only when the position changes
handleContainerClickDedup(target, cx, cy) ==
    IF ~allowImageClick \/ canMove \/ target = "BUTTON" \/ ~mounted
    THEN NoUpdate
    ELSE LET newX == calculatePercentage(cx - rect.left, rect.width)
             newY == calculatePercentage(cy - rect.top, rect.height)
         IN  Batch(newX, newY, canMove,
                   IF FocusPoint(newX, newY) = FocusPoint(x, y)
                   THEN <<>> ELSE <<FocusPoint(newX, newY)>>,
                   listeners)

handleContainerClick(target, cx, cy) ==
    IF ~allowImageClick \/ canMove
    THEN NoUpdate
    ELSE IF target = "BUTTON"
    THEN NoUpdate
    ELSE IF ~mounted
    THEN NoUpdate
    ELSE LET xPixels == cx - rect.left
             yPixels == cy - rect.top
             newX == calculatePercentage(xPixels, rect.width)
             newY == calculatePercentage(yPixels, rect.height)
         IN  Batch(newX, newY, canMove, <<FocusPoint(newX, newY)>>, listeners)

\* mutant: a click on the indicator is handled as a click on the container
indicatorClickAsContainer(cx, cy) ==
    handleContainerClick("DIV", cx, cy)

\* a click on the indicator: the button's onClick stops the propagation; were
\* it not stopped, the container's onClick would get it with the button as target
indicatorClick(cx, cy) ==
    LET stopPropagation == TRUE
    IN  IF stopPropagation
        THEN NoUpdate
        ELSE handleContainerClick("BUTTON", cx, cy)

\* the closure of render g, called on some list of listeners
handleMouseUp(g, b) ==
    Batch(b.x, b.y, FALSE, b.emitted, [t \in EventTypes |-> b.listeners[t] \ {g}])

\* mutant: the press registers no listener on document
handleMouseDownNoListener ==
    Batch(x, y, TRUE, <<>>, listeners)

handleMouseDown ==
    Batch(x, y, TRUE, <<>>, [t \in EventTypes |-> listeners[t] \cup {renderId}])

\* mutant: Enter and Space start the drag mode instead of toggling it
onKeyDownStartsOnly(key) ==
    IF key = "Enter" \/ key = " "
    THEN Batch(x, y, TRUE, <<>>, listeners)
    ELSE NoUpdate

onKeyDown(key) ==
    IF key = "Enter" \/ key = " "
    THEN Batch(x, y, ~canMove, <<>>, listeners)
    ELSE NoUpdate

\* document dispatches an event of type t: every closure registered for t runs
RECURSIVE dispatch(_, _, _)
dispatch(t, pending, b) ==
    IF pending = {}
    THEN b
    ELSE LET g == CHOOSE h \in pending : \A o \in pending : h <= o
         IN  dispatch(t, pending \ {g}, handleMouseUp(g, b))

----------------------------------------------------------------------------
(* Presentation: class names are sequences of classes *)

\* the classes of the component that belong to tailwind's cursor group
CursorClasses == {"cursor-crosshair", "cursor-grab", "cursor-grabbing"}

\* clsx: the falsy inputs are dropped (a condition that fails is "" here)
clsx(inputs) == SelectSeq(inputs, LAMBDA c : c # "")

\* tailwind-merge: of the classes of one group (here the cursor) the last wins
twMerge(classes) ==
    {classes[i] : i \in {j \in DOMAIN classes :
        classes[j] \in CursorClasses =>
            \A k \in DOMAIN classes : k > j => classes[k] \notin CursorClasses}}

cn(inputs) == twMerge(clsx(inputs))

\* the className prop of the caller: none, or a class that sets no cursor
ClassNames == {"", "rounded-lg"}

containerClassName(className) ==
    cn(<<"relative", "select-none",
         IF allowImageClick /\ ~canMove THEN "cursor-crosshair" ELSE "",
         className>>)

\* mutant: the two cursors of the indicator are exchanged
indicatorClassNameSwapped ==
    cn(<<"absolute", "z-10", "rounded-full",
         IF canMove THEN "cursor-grab" ELSE "cursor-grabbing">>)

indicatorClassName ==
    cn(<<"absolute", "z-10", "rounded-full",
         IF canMove THEN "cursor-grabbing" ELSE "cursor-grab">>)

----------------------------------------------------------------------------
(* Reconciliation, render and commit *)

\* mutant: the effect runs on mount only
useEffectOnMountOnly(fp, depsChanged, pos) == pos

\* the effect on [initialFocusPoint]: pos is the position the render shows
useEffect(fp, depsChanged, pos) ==
    IF depsChanged /\ fp # NoFocusPoint
    THEN FocusPoint(fp.x, fp.y)
    ELSE pos

\* the dependency array compares by Object.is: undefined equals undefined,
\* an object equals only itself
DepsChanged(old, new, sameRef) ==
    IF old = NoFocusPoint /\ new = NoFocusPoint THEN FALSE ELSE ~sameRef

\* Renders are told apart only by identity: after a step they are renumbered
\* 0, 1, ... in order, over the committed render and those with a listener.
Rank(g, used) == Cardinality({h \in used : h < g})

\* The batch b is applied, the component renders with the prop fp,
\* and the effect runs when its dependency changed.
Commit(b, fp, parentRendered, depsChanged) ==
    LET shown == FocusPoint(b.x, b.y)
        pos == useEffect(fp, depsChanged, shown)
        rendered == \/ parentRendered
                    \/ shown # FocusPoint(x, y)
                    \/ b.canMove # canMove
                    \/ pos # shown
        rid == IF rendered THEN renderId + 1 ELSE renderId
        used == {rid} \cup UNION {b.listeners[t] : t \in EventTypes}
    IN  /\ x' = pos.x
        /\ y' = pos.y
        /\ canMove' = b.canMove
        /\ initialFocusPoint' = fp
        /\ allowImageClick' = allowImageClick
        /\ renderId' = Rank(rid, used)
        /\ listeners' = [t \in EventTypes |-> {Rank(g, used) : g \in b.listeners[t]}]
        /\ emitted' = b.emitted

\* A handler of the mounted component has returned b: the caller, when it
\* adopts, has set its state to the last value of onChange and renders with it.
React(b) ==
    IF callerAdopts /\ b.emitted # <<>>
    THEN Commit(b, b.emitted[Len(b.emitted)], TRUE, TRUE)
    ELSE Commit(b, initialFocusPoint, FALSE, FALSE)

----------------------------------------------------------------------------
(* Initial state: the first render and its effect *)

\* mutant: without a focusPoint the position starts at the origin
InitAtOrigin ==
    /\ initialFocusPoint \in {NoFocusPoint} \cup ExtPoints
    /\ x = (IF initialFocusPoint # NoFocusPoint THEN initialFocusPoint.x ELSE Num(0))
    /\ y = (IF initialFocusPoint # NoFocusPoint THEN initialFocusPoint.y ELSE Num(0))
    /\ canMove = FALSE
    /\ allowImageClick \in BOOLEAN
    /\ callerAdopts \in BOOLEAN
    /\ rect \in Rects
    /\ mounted = TRUE
    /\ renderId = 0
    /\ listeners = NoListeners
    /\ gesture = "none"
    /\ clickFollows = "none"
    /\ ev = Event("mount", 0, 0, "")
    /\ emitted = <<>>

Init ==
    /\ initialFocusPoint \in {NoFocusPoint} \cup ExtPoints
    /\ x = (IF initialFocusPoint # NoFocusPoint THEN initialFocusPoint.x ELSE Num(DEFAULT_PERCENTAGE))
    /\ y = (IF initialFocusPoint # NoFocusPoint THEN initialFocusPoint.y ELSE Num(DEFAULT_PERCENTAGE))
    /\ canMove = FALSE
    /\ allowImageClick \in BOOLEAN
    /\ callerAdopts \in BOOLEAN
    /\ rect \in Rects
    /\ mounted = TRUE
    /\ renderId = 0
    /\ listeners = NoListeners
    /\ gesture = "none"
    /\ clickFollows = "none"
    /\ ev = Event("mount", 0, 0, "")
    /\ emitted = <<>>

----------------------------------------------------------------------------
(* Events *)

\* click on the container (the image lets pointer events through)
ContainerClick(cx, cy) ==
    /\ mounted
    /\ React(handleContainerClick("DIV", cx, cy))
    /\ ev' = Event("click", cx, cy, "")
    /\ clickFollows' = "none"
    /\ UNCHANGED <<callerAdopts, rect, mounted, gesture>>

\* click on the indicator: its onClick stops the propagation
IndicatorClick ==
    /\ mounted
    /\ React(indicatorClick(0, 0))
    /\ ev' = Event("indicatorClick", 0, 0, "")
    /\ clickFollows' = "none"
    /\ UNCHANGED <<callerAdopts, rect, mounted, gesture>>

\* mousemove over the container or over the indicator inside it
ContainerMouseMove(cx, cy) ==
    /\ mounted
    /\ React(handleMouseMove(cx, cy))
    /\ ev' = Event("mousemove", cx, cy, "")
    /\ clickFollows' = "none"
    /\ UNCHANGED <<callerAdopts, rect, mounted, gesture>>

\* mousedown on the indicator
IndicatorMouseDown ==
    /\ mounted
    /\ Cardinality(listeners["mouseup"] \cup {renderId}) <= MaxListeners
    /\ React(handleMouseDown)
    /\ gesture' = "press"
    /\ clickFollows' = "none"
    /\ ev' = Event("mousedown", 0, 0, "")
    /\ UNCHANGED <<callerAdopts, rect, mounted>>

\* mouseup on the indicator: its onMouseUp runs, then the event reaches document
IndicatorMouseUp ==
    /\ mounted
    /\ LET own == handleMouseUp(renderId, NoUpdate)
       IN  React(dispatch("mouseup", own.listeners["mouseup"], own))
    /\ gesture' = "release"
    /\ clickFollows' = (IF gesture = "press" THEN "indicator" ELSE "none")
    /\ ev' = Event("mouseup", 0, 0, "")
    /\ UNCHANGED <<callerAdopts, rect, mounted>>

\* mouseup or mouseleave that only document observes
DocumentEvent(t) ==
    /\ LET b == dispatch(t, listeners[t], NoUpdate)
       IN  IF mounted
           THEN React(b)
           ELSE /\ listeners' = b.listeners
                /\ UNCHANGED <<x, y, canMove, initialFocusPoint, allowImageClick,
                               renderId, emitted>>
    /\ gesture' = (IF gesture = "press" THEN "outside-" \o t ELSE gesture)
    /\ clickFollows' = (IF t = "mouseup" /\ gesture = "press" /\ mounted
                      THEN "container" ELSE "none")
    /\ ev' = Event("document-" \o t, 0, 0, "")
    /\ UNCHANGED <<callerAdopts, rect, mounted>>

\* keydown on the focused indicator
IndicatorKeyDown(key) ==
    /\ mounted
    /\ React(onKeyDown(key))
    /\ gesture' = (IF key = "Enter" \/ key = " " THEN "toggle" ELSE gesture)
    /\ clickFollows' = "none"
    /\ ev' = Event("keydown", 0, 0, key)
    /\ UNCHANGED <<callerAdopts, rect, mounted>>

\* the caller renders the component again: with the same object or none
\* ("render-same"), with another object of equal value ("render-equal"), or
\* with another value ("render-new")
ParentRender(fp, sameRef) ==
    /\ mounted
    /\ sameRef => fp = initialFocusPoint
    /\ Commit(NoUpdate, fp, TRUE, DepsChanged(initialFocusPoint, fp, sameRef))
    /\ ev' = Event(IF sameRef THEN "render-same"
                   ELSE IF fp = initialFocusPoint THEN "render-equal"
                   ELSE "render-new", 0, 0, "")
    /\ clickFollows' = "none"
    /\ UNCHANGED <<callerAdopts, rect, mounted, gesture>>

\* the container is laid out again (resize, scroll)
Layout(r) ==
    /\ mounted
    /\ r # rect
    /\ rect' = r
    /\ ev' = Event("layout", 0, 0, "")
    /\ emitted' = <<>>
    /\ clickFollows' = "none"
    /\ UNCHANGED <<x, y, canMove, initialFocusPoint, allowImageClick, callerAdopts,
                   mounted, renderId, listeners, gesture>>

\* the component is unmounted: it has no effect cleanup
Unmount ==
    /\ mounted
    /\ mounted' = FALSE
    /\ ev' = Event("unmount", 0, 0, "")
    /\ emitted' = <<>>
    /\ clickFollows' = "none"
    /\ UNCHANGED <<x, y, canMove, initialFocusPoint, allowImageClick, callerAdopts,
                   rect, renderId, listeners, gesture>>

Next ==
    \/ \E p \in Pointers : ContainerClick(p[1], p[2])
    \/ IndicatorClick
    \/ \E p \in Pointers : ContainerMouseMove(p[1], p[2])
    \/ IndicatorMouseDown
    \/ IndicatorMouseUp
    \/ \E t \in EventTypes : DocumentEvent(t)
    \/ \E key \in {"Enter", " ", "Tab"} : IndicatorKeyDown(key)
    \/ \E fp \in {NoFocusPoint, initialFocusPoint} \cup ExtPoints, sameRef \in BOOLEAN :
          ParentRender(fp, sameRef)
    \/ \E r \in Rects : Layout(r)
    \/ Unmount

Spec == Init /\ [][Next]_vars

----------------------------------------------------------------------------
(* The mapper alone, on a wider range of rectangles and pointers *)

MapCoords == (0 - 2)..(MaxSize + 2)
MapRects == {Rect(l, t, w, h) : l \in 0..1, t \in 0..1, w \in 1..MaxSize, h \in 1..MaxSize}

MapperInit ==
    /\ Init
    /\ initialFocusPoint = NoFocusPoint
    /\ allowImageClick
    /\ ~callerAdopts
    /\ rect = Rect(0, 0, 2, 2)

\* the mapper applied to one pointer position and one rectangle
MapperApply(cx, cy, r) ==
    /\ ev.type = "mount"
    /\ rect' = r
    /\ x' = calculatePercentage(cx - r.left, r.width)
    /\ y' = calculatePercentage(cy - r.top, r.height)
    /\ ev' = Event("map", cx, cy, "")
    /\ UNCHANGED <<canMove, initialFocusPoint, allowImageClick, callerAdopts, mounted,
                   renderId, listeners, gesture, clickFollows, emitted>>

MapperNext == \E cx \in MapCoords, cy \in MapCoords, r \in MapRects : MapperApply(cx, cy, r)

MapperSpec == MapperInit /\ [][MapperNext]_vars

----------------------------------------------------------------------------
(* Properties *)

Positive(r) == r.width > 0 /\ r.height > 0

\* v is a finite number in [0, 100]
InRange(v) == v.k = "fin" /\ 0 <= v.n /\ v.n <= 100 * v.d

\* v is (p - origin) * 100 / size saturated to [0, 100], stated without division:
\* 0 at or before the origin, 100 at or past the far edge, and in between the
\* fraction whose cross product with size equals (p - origin) * 100
IsClamp(v, p, origin, size) ==
    /\ v.k = "fin"
    /\ v.d > 0
    /\ p <= origin => v = Num(0)
    /\ p >= origin + size => v = Num(100)
    /\ (origin < p /\ p < origin + size) => v.n * size = (p - origin) * 100 * v.d

IsMapped(px, py, cx, cy, r) ==
    /\ IsClamp(px, cx, r.left, r.width)
    /\ IsClamp(py, cy, r.top, r.height)

\* C1: every onChange call carries x and y that are finite numbers in [0, 100].
OnChangeInRange ==
    \A i \in 1..Len(emitted) : InRange(emitted[i].x) /\ InRange(emitted[i].y)

\* C2: for a rectangle of positive width and height the mapper returns, on each
\* axis on its own, (pointer - origin) * 100 / size saturated to [0, 100].
MapperSaturates ==
    ev.type = "map" => IsMapped(x, y, ev.cx, ev.cy, rect)

\* C2 witness: a pointer left of the rectangle and strictly inside it vertically,
\* at a height that is not a whole percentage.
MapperSaturatesWitness ==
    /\ ev.type = "map"
    /\ ev.cx < rect.left
    /\ x = Num(0)
    /\ rect.top < ev.cy /\ ev.cy < rect.top + rect.height
    /\ y.d > 1

\* C3: a click on the container (not on the indicator) with click-to-set enabled
\* and the state Idle calls onChange exactly once, with the position now
\* displayed, which is the mapped coordinate of the click.
ClickSetsPosition ==
    (ev.type = "click" /\ allowImageClick /\ ~canMove) =>
        /\ emitted = <<FocusPoint(x, y)>>
        /\ Positive(rect) => IsMapped(x, y, ev.cx, ev.cy, rect)

\* C3 witness: a click at the bottom-right corner of a 2x2 container at the origin
\* has moved the position to (100, 100) and reported it.
ClickSetsPositionWitness ==
    /\ ev = Event("click", 2, 2, "")
    /\ allowImageClick /\ ~canMove
    /\ rect = Rect(0, 0, 2, 2)
    /\ x = Num(100) /\ y = Num(100)
    /\ emitted = <<FocusPoint(Num(100), Num(100))>>

\* C4: with click-to-set disabled a container click, in either interaction state
\* and at any pointer position, calls onChange zero times and leaves the
\* displayed position as it was.
DisabledClickIsNoOp ==
    [][(ev'.type = "click" /\ ~allowImageClick) =>
           (emitted' = <<>> /\ x' = x /\ y' = y)]_vars

\* C4 witness: a container click inside a laid-out container, click-to-set disabled.
DisabledClickIsNoOpWitness ==
    /\ ev = Event("click", 1, 1, "")
    /\ ~allowImageClick
    /\ rect = Rect(0, 0, 2, 2)
    /\ emitted = <<>>

\* C5: while the press on the indicator is the last event that started or ended
\* a drag, every pointer move over the container calls onChange once with the
\* position it displays, the mapped coordinate of the move; once the release on
\* the indicator is that last event, a pointer move calls onChange zero times.
DragReportsEveryMove ==
    /\ (ev.type = "mousemove" /\ gesture = "press") =>
           /\ emitted = <<FocusPoint(x, y)>>
           /\ Positive(rect) => IsMapped(x, y, ev.cx, ev.cy, rect)
    /\ (ev.type = "mousemove" /\ gesture = "release") => emitted = <<>>

\* C5 witness: during a drag a move to the middle of a 2x2 container at the
\* origin is displayed and reported as (50, 50).
DragReportsEveryMoveWitness ==
    /\ ev = Event("mousemove", 1, 1, "")
    /\ gesture = "press"
    /\ rect = Rect(0, 0, 2, 2)
    /\ x = Num(50) /\ y = Num(50)
    /\ emitted = <<FocusPoint(Num(50), Num(50))>>

\* C6: after a press on the indicator, a mouseup that only document observes
\* leaves the mounted component Idle, and pointer moves that follow call
\* onChange zero times.
OutsideReleaseEndsDrag ==
    /\ (gesture = "outside-mouseup" /\ mounted) => ~canMove
    /\ (ev.type = "mousemove" /\ gesture = "outside-mouseup") => emitted = <<>>

\* C6 witness: a pointer move over the container after the outside release.
OutsideReleaseEndsDragWitness ==
    /\ ev.type = "mousemove"
    /\ gesture = "outside-mouseup"
    /\ ~canMove
    /\ emitted = <<>>

\* C7: a render in which the caller supplies a focusPoint of another value than
\* before leaves the displayed position equal to it, and onChange is not called.
ExternalChangeIsShown ==
    (ev.type = "render-new" /\ initialFocusPoint # NoFocusPoint) =>
        /\ FocusPoint(x, y) = initialFocusPoint
        /\ emitted = <<>>

\* C7 witness: mid-drag the caller has replaced the value and the component shows it.
ExternalChangeIsShownWitness ==
    /\ ev.type = "render-new"
    /\ canMove
    /\ initialFocusPoint = FocusPoint(Num(30), Num(40))
    /\ x = Num(30) /\ y = Num(40)

\* C8: a render in which the caller supplies a focusPoint equal in x and y to the
\* previous one (the same object or another) leaves the displayed position as it
\* was.
EqualValueKeepsPosition ==
    [][(ev'.type \in {"render-same", "render-equal"}) => (x' = x /\ y' = y)]_vars

\* C9: in a drag with a caller that answers each onChange by supplying its value,
\* every move leaves the displayed position and the external value at the mapped
\* coordinate of the move; and while Dragging a render that has not changed the
\* external value leaves the displayed position as it was.
DragIsNeverReverted ==
    [][/\ (ev'.type = "mousemove" /\ canMove /\ callerAdopts /\ Positive(rect)) =>
             /\ IsMapped(x', y', ev'.cx, ev'.cy, rect)
             /\ initialFocusPoint' = FocusPoint(x', y')
       /\ (ev'.type \in {"render-same", "render-equal"} /\ canMove) =>
             (x' = x /\ y' = y)]_vars

\* C10: with a container rectangle of zero width or zero height, a container
\* click and a pointer move while Dragging call onChange zero times and leave the
\* displayed position as it was.
ZeroSizeIsNoOp ==
    [][(ev'.type \in {"click", "mousemove"} /\ ~Positive(rect)) =>
           (emitted' = <<>> /\ x' = x /\ y' = y)]_vars

\* C11: whenever the mounted component is Idle, no handleMouseUp closure is
\* registered on document for either event type.
IdleHasNoListener ==
    (mounted /\ ~canMove) => listeners = NoListeners

\* C12: at most one handleMouseUp closure is registered on document per event
\* type.
OneListenerPerType ==
    \A t \in EventTypes : Cardinality(listeners[t]) <= 1

\* C13: unmounting the component while Dragging leaves no handleMouseUp closure
\* registered on document.
UnmountRemovesListeners ==
    [][(mounted /\ canMove /\ ~mounted') => listeners' = NoListeners]_vars

\* C14: the click that the release of a press on the indicator produces, on the
\* indicator when the release was on it and on the container when the release
\* was elsewhere over the container, calls onChange zero times.
GestureClickIsSilent ==
    [][(\/ clickFollows = "indicator" /\ ev'.type = "indicatorClick"
        \/ clickFollows = "container" /\ ev'.type = "click") => emitted' = <<>>]_vars

\* C15: Enter or Space on the indicator negates canMove (so a second one restores
\* it, and with it the indicator's cursor class), any other key leaves it as it
\* was, and no key changes the displayed position or calls onChange.
KeyTogglesDragMode ==
    [][ev'.type = "keydown" =>
           /\ canMove' = (IF ev'.key \in {"Enter", " "} THEN ~canMove ELSE canMove)
           /\ x' = x /\ y' = y
           /\ emitted' = <<>>]_vars

\* C15 witness: the mode has been toggled back to Idle by the keyboard alone, the
\* position still the default.
KeyTogglesDragModeWitness ==
    /\ ev = Event("keydown", 0, 0, " ")
    /\ gesture = "toggle"
    /\ ~canMove
    /\ listeners = NoListeners
    /\ initialFocusPoint = NoFocusPoint
    /\ x = Num(DEFAULT_PERCENTAGE) /\ y = Num(DEFAULT_PERCENTAGE)

\* C16: the displayed position has x and y in [0, 100] in every reachable state.
PositionInRange ==
    InRange(x) /\ InRange(y)

\* C17: the first render is Idle and displays the supplied focusPoint, or (50, 50)
\* when none is supplied; and while no focusPoint is supplied the displayed
\* position changes only in a container click or a pointer move.
FirstRenderAndGesturesOnly ==
    /\ (ev.type = "mount") =>
           /\ ~canMove
           /\ FocusPoint(x, y) = (IF initialFocusPoint # NoFocusPoint
                                  THEN initialFocusPoint
                                  ELSE FocusPoint(Num(50), Num(50)))
    /\ [][(/\ initialFocusPoint = NoFocusPoint
           /\ initialFocusPoint' = NoFocusPoint
           /\ FocusPoint(x', y') # FocusPoint(x, y)) =>
              ev'.type \in {"click", "mousemove"}]_vars

\* C17 witness: with no focusPoint ever supplied (the caller does not answer
\* onChange), a container click has moved the position away from the centre.
FirstRenderAndGesturesOnlyWitness ==
    /\ ev.type = "click"
    /\ ~callerAdopts
    /\ initialFocusPoint = NoFocusPoint
    /\ x = Num(100) /\ y = Num(100)

\* the outcome of a handled move on one axis, stated without division: the
\* clamp for a positive size; for size 0 it is 0 before the origin, NaN at it
\* and 100 past it
MoveOutcome(v, p, origin, size) ==
    IF size > 0
    THEN IsClamp(v, p, origin, size)
    ELSE /\ p < origin => v = Num(0)
         /\ p = origin => v = NaN
         /\ p > origin => v = Num(100)

\* C18: a pointer move while Dragging has the same outcome whether the mode was
\* entered by a press on the indicator or by Enter/Space: onChange is called
\* once with the displayed position, which depends on the move and the
\* rectangle alone.
ToggledDragMovesLikePress ==
    (ev.type = "mousemove" /\ canMove /\ gesture \in {"press", "toggle"}) =>
        /\ emitted = <<FocusPoint(x, y)>>
        /\ MoveOutcome(x, ev.cx, rect.left, rect.width)
        /\ MoveOutcome(y, ev.cy, rect.top, rect.height)

\* C18 witness: a move in a drag mode entered by the keyboard (no listener is
\* registered) is displayed and reported as (50, 50).
ToggledDragMovesLikePressWitness ==
    /\ ev = Event("mousemove", 1, 1, "")
    /\ gesture = "toggle"
    /\ canMove
    /\ listeners = NoListeners
    /\ rect = Rect(0, 0, 2, 2)
    /\ emitted = <<FocusPoint(Num(50), Num(50))>>

\* C19: in every Dragging state of the mounted component, a mouseup that only
\* document observes leaves the component Idle.
AnyDragEndsOnOutsideRelease ==
    [][(ev'.type = "document-mouseup" /\ mounted /\ canMove) => ~canMove']_vars

\* C20: a pointer move while Idle calls onChange zero times and leaves the
\* displayed position and the interaction state as they were.
IdleMoveIsNoOp ==
    [][(ev'.type = "mousemove" /\ ~canMove) =>
           (emitted' = <<>> /\ x' = x /\ y' = y /\ canMove' = canMove)]_vars

\* C20 witness: a move after the keyboard has toggled the mode back to Idle.
IdleMoveIsNoOpWitness ==
    /\ ev.type = "mousemove"
    /\ gesture = "toggle"
    /\ ~canMove
    /\ emitted = <<>>

\* C21: a press or a click on the indicator calls onChange zero times and leaves
\* the displayed position as it was, whatever canMove and allowImageClick are.
IndicatorEventsStayOnIndicator ==
    [][ev'.type \in {"mousedown", "indicatorClick"} =>
           (emitted' = <<>> /\ x' = x /\ y' = y)]_vars

\* C21 witness: a click on the indicator while Idle with allowImageClick, where
\* a click on the container would have been handled.
IndicatorEventsStayOnIndicatorWitness ==
    /\ ev.type = "indicatorClick"
    /\ allowImageClick
    /\ ~canMove
    /\ emitted = <<>>

\* C22: a click on the container while canMove is set calls onChange zero times
\* and leaves the displayed position as it was.
DraggingClickIsNoOp ==
    [][(ev'.type = "click" /\ canMove) => (emitted' = <<>> /\ x' = x /\ y' = y)]_vars

\* C22 witness: with allowImageClick, a container click in a drag mode entered
\* by the keyboard.
DraggingClickIsNoOpWitness ==
    /\ ev.type = "click"
    /\ allowImageClick
    /\ canMove
    /\ gesture = "toggle"
    /\ emitted = <<>>

\* the cursor a class name shows
Cursor(classes) ==
    IF classes \cap CursorClasses = {}
    THEN "default"
    ELSE CHOOSE c \in classes \cap CursorClasses : TRUE

\* C23: while mounted, the indicator shows cursor-grabbing when canMove is set
\* and cursor-grab when it is not, and the container shows cursor-crosshair
\* exactly when allowImageClick is set and canMove is not (for a className of
\* the caller that sets no cursor).
CursorFollowsState ==
    mounted =>
        /\ Cursor(indicatorClassName) = (IF canMove THEN "cursor-grabbing" ELSE "cursor-grab")
        /\ Cardinality(indicatorClassName \cap CursorClasses) = 1
        /\ \A className \in ClassNames :
               (Cursor(containerClassName(className)) = "cursor-crosshair")
                   <=> (allowImageClick /\ ~canMove)

\* C23 witness: Dragging with allowImageClick: the indicator shows
\* cursor-grabbing and the container the default cursor.
CursorFollowsStateWitness ==
    /\ mounted
    /\ canMove
    /\ allowImageClick
    /\ Cursor(indicatorClassName) = "cursor-grabbing"
    /\ Cursor(containerClassName("")) = "default"

\* C24: without a focusPoint, the first render displays (50, 50), and every step
\* that calls onChange leaves its last argument displayed while every other
\* step leaves the displayed position as it was.
PositionIsLastChange ==
    /\ (ev.type = "mount" /\ initialFocusPoint = NoFocusPoint) =>
           FocusPoint(x, y) = FocusPoint(Num(DEFAULT_PERCENTAGE), Num(DEFAULT_PERCENTAGE))
    /\ [][(initialFocusPoint = NoFocusPoint /\ initialFocusPoint' = NoFocusPoint) =>
              IF emitted' # <<>>
              THEN FocusPoint(x', y') = emitted'[Len(emitted')]
              ELSE FocusPoint(x', y') = FocusPoint(x, y)]_vars

\* C24 witness: without a focusPoint, a handled move has been reported and is
\* displayed, away from the centre.
PositionIsLastChangeWitness ==
    /\ ev.type = "mousemove"
    /\ initialFocusPoint = NoFocusPoint
    /\ ~callerAdopts
    /\ emitted = <<FocusPoint(Num(100), Num(0))>>
    /\ FocusPoint(x, y) = FocusPoint(Num(100), Num(0))

\* C25: a pointer move while canMove is set and a container click with
\* allowImageClick while it is not each call onChange exactly once; no other
\* event calls it; press, release, mouseleave, key and indicator click leave the
\* displayed position as it was.
OnChangeOncePerHandledEvent ==
    [][/\ (ev'.type = "mousemove" /\ canMove) => Len(emitted') = 1
       /\ (ev'.type = "click" /\ allowImageClick /\ ~canMove) => Len(emitted') = 1
       /\ ev'.type \notin {"mousemove", "click"} => emitted' = <<>>
       /\ ev'.type \in {"mousedown", "mouseup", "document-mouseup",
                        "document-mouseleave", "keydown", "indicatorClick"} =>
              (x' = x /\ y' = y)]_vars

\* C25 witness: before any drag and without a focusPoint, a click at the centre
\* of the container has been reported as (50, 50), the position displayed.
OnChangeOncePerHandledEventWitness ==
    /\ ev = Event("click", 1, 1, "")
    /\ rect = Rect(0, 0, 2, 2)
    /\ gesture = "none"
    /\ initialFocusPoint = NoFocusPoint
    /\ emitted = <<FocusPoint(Num(50), Num(50))>>
    /\ FocusPoint(x, y) = FocusPoint(Num(50), Num(50))

\* C26: right after a press on the indicator, the handleMouseUp of the committed
\* render (the button's onMouseUp), run alone, leaves no listener on document.
OwnReleaseRemovesListener ==
    (mounted /\ ev.type = "mousedown") =>
        handleMouseUp(renderId, NoUpdate).listeners = NoListeners

====
